---- MODULE Spec2Model ----
(***************************************************************************)
(* Model of just_calibration.py: a single-pass script that loads a pickle  *)
(* of chessboard correspondences, optionally filters the frames by camera  *)
(* displacement (split_by_distance) or by stride (a Python slice), calls   *)
(* the OpenCV calibration, prints the result and optionally saves it.      *)
(*                                                                         *)
(* Python indices are 0-based; a Python list of length n is the TLA+       *)
(* sequence whose element at position i+1 is the list's element i.         *)
(* Lengths are in units of 0.05 (so 0.5 is 10 and 1.0 is 20); a rotation   *)
(* vector is (0, 0, q*pi/2), written as its number q of quarter turns.     *)
(***************************************************************************)
EXTENDS Integers, Sequences, FiniteSets, TLC

VARIABLES pc, args, file, pFile, objpoints, imgpoints, ret_names, vecs,
          calibrated, log, opened, released

vars == <<pc, args, file, pFile, objpoints, imgpoints, ret_names, vecs,
          calibrated, log, opened, released>>

\* ------------------------------------------------------------------ bounds
\* longest frame list whose poses vary
MaxLen == 3
\* longest frame list of the stride inputs
MaxStrideLen == 5

\* --------------------------------------------------------- pure functions

Max(a, b) == IF a >= b THEN a ELSE b
Min(a, b) == IF a <= b THEN a ELSE b

\* R.from_rotvec((0, 0, q*pi/2)).as_matrix()
Cos4(q) == CASE q % 4 = 0 -> 1 [] q % 4 = 1 -> 0 [] q % 4 = 2 -> -1 [] OTHER -> 0
Sin4(q) == CASE q % 4 = 0 -> 0 [] q % 4 = 1 -> 1 [] q % 4 = 2 -> 0 [] OTHER -> -1
as_matrix(q) ==
    << <<Cos4(q), -Sin4(q), 0>>, <<Sin4(q), Cos4(q), 0>>, <<0, 0, 1>> >>

\* np.dot(matrix, vector)
dot(m, v) == [r \in 1..3 |-> m[r][1] * v[1] + m[r][2] * v[2] + m[r][3] * v[3]]

\* tmat of one element of vecs: the rotated translation vector
tmat(vec) == dot(as_matrix(vec[1]), vec[2])

\* np.linalg.norm(a - b) squared
NormSq(a, b) ==
    (a[1] - b[1]) * (a[1] - b[1]) + (a[2] - b[2]) * (a[2] - b[2])
        + (a[3] - b[3]) * (a[3] - b[3])

\* mutant of FarEnough: the comparison is strict (dtc > min_dist)
FarEnoughStrict(tmat_old, t, min_dist) ==
    min_dist < 0 \/ NormSq(tmat_old, t) > min_dist * min_dist

\* dtc >= min_dist, with dtc = np.linalg.norm(tmat_old - tmat) >= 0
FarEnough(tmat_old, t, min_dist) ==
    min_dist <= 0 \/ NormSq(tmat_old, t) >= min_dist * min_dist

\* mutant of ArgSplitLoop: every frame, retained or not, becomes the reference
RECURSIVE ArgSplitLoopPrev(_, _, _, _, _)
ArgSplitLoopPrev(vs, min_dist, i, tmat_old, acc) ==
    IF i >= Len(vs) THEN acc
    ELSE LET t == tmat(vs[i + 1]) IN
         IF i = 0 \/ FarEnough(tmat_old, t, min_dist)
         THEN ArgSplitLoopPrev(vs, min_dist, i + 1, t, Append(acc, i))
         ELSE ArgSplitLoopPrev(vs, min_dist, i + 1, t, acc)

\* the loop of split_by_distance from index i on: arg_split so far is acc
RECURSIVE ArgSplitLoop(_, _, _, _, _)
ArgSplitLoop(vs, min_dist, i, tmat_old, acc) ==
    IF i >= Len(vs) THEN acc
    ELSE LET t == tmat(vs[i + 1]) IN
         IF i = 0 THEN ArgSplitLoop(vs, min_dist, i + 1, t, Append(acc, i))
         ELSE IF FarEnough(tmat_old, t, min_dist)
              THEN ArgSplitLoop(vs, min_dist, i + 1, t, Append(acc, i))
              ELSE ArgSplitLoop(vs, min_dist, i + 1, tmat_old, acc)

\* mutant of arg_split: frame 0 is compared with the origin, not retained
\* unconditionally
arg_splitNoFirst(vs, min_dist) ==
    IF Len(vs) = 0 THEN <<>>
    ELSE IF FarEnough(<<0, 0, 0>>, tmat(vs[1]), min_dist)
         THEN ArgSplitLoop(vs, min_dist, 1, tmat(vs[1]), <<0>>)
         ELSE ArgSplitLoop(vs, min_dist, 1, <<0, 0, 0>>, <<>>)

arg_split(vs, min_dist) == ArgSplitLoop(vs, min_dist, 0, <<0, 0, 0>>, <<>>)

InList(i, xs) == \E k \in 1..Len(xs) : xs[k] = i

\* [xs[i] for i in range(len(xs)) if i in idx], from index i on
RECURSIVE PickFrom(_, _, _)
PickFrom(xs, idx, i) ==
    IF i >= Len(xs) THEN <<>>
    ELSE IF InList(i, idx) THEN <<xs[i + 1]>> \o PickFrom(xs, idx, i + 1)
         ELSE PickFrom(xs, idx, i + 1)

Pick(xs, idx) == PickFrom(xs, idx, 0)

split_by_distance(objpts, imgpts, names, vs, min_dist) ==
    LET idx == arg_split(vs, min_dist) IN
    <<Pick(objpts, idx), Pick(imgpts, idx), Pick(names, idx)>>

\* mutant of SliceStart: the residue is taken modulo the step
SliceStartMod(n, start, step) ==
    IF step > 0 THEN Min(start % step, n) ELSE Min(start, n - 1)

\* the first index of xs[start::step], as Python's slice.indices computes it
SliceStart(n, start, step) ==
    IF step > 0
    THEN (IF start < 0 THEN Max(start + n, 0) ELSE Min(start, n))
    ELSE (IF start < 0 THEN Max(start + n, -1) ELSE Min(start, n - 1))

\* the indices of xs[start::step] from index i on, step # 0
RECURSIVE SliceWalk(_, _, _)
SliceWalk(n, i, step) ==
    IF i < 0 \/ i >= n THEN <<>>
    ELSE <<i>> \o SliceWalk(n, i + step, step)

SliceIndices(n, start, step) == SliceWalk(n, SliceStart(n, start, step), step)

\* xs[start::step], step # 0
Slice(xs, start, step) ==
    LET idx == SliceIndices(Len(xs), start, step) IN
    [k \in 1..Len(idx) |-> xs[idx[k] + 1]]

\* mutant of FilterLists: the names are not sliced
FilterListsNoNames(a, objpts, imgpts, names, vs) ==
    IF a.filterdist
    THEN split_by_distance(objpts, imgpts, names, vs, a.mindist)
    ELSE IF a.filtertime
         THEN <<Slice(objpts, a.residue, a.reduction),
                Slice(imgpts, a.residue, a.reduction), names>>
         ELSE <<objpts, imgpts, names>>

\* mutant of FilterLists: the second test is an if, not an elif
FilterListsBoth(a, objpts, imgpts, names, vs) ==
    LET d == IF a.filterdist
             THEN split_by_distance(objpts, imgpts, names, vs, a.mindist)
             ELSE <<objpts, imgpts, names>>
    IN IF a.filtertime /\ a.reduction # 0
       THEN <<Slice(d[1], a.residue, a.reduction),
              Slice(d[2], a.residue, a.reduction),
              Slice(d[3], a.residue, a.reduction)>>
       ELSE d

\* the filter section of the script: the three lists it leaves
FilterLists(a, objpts, imgpts, names, vs) ==
    IF a.filterdist
    THEN split_by_distance(objpts, imgpts, names, vs, a.mindist)
    ELSE IF a.filtertime
         THEN <<Slice(objpts, a.residue, a.reduction),
                Slice(imgpts, a.residue, a.reduction),
                Slice(names, a.residue, a.reduction)>>
         ELSE <<objpts, imgpts, names>>

\* a slice with step 0 raises ValueError
FilterRaises(a) == ~a.filterdist /\ a.filtertime /\ a.reduction = 0

\* number of characters of a frame name's prefix
PrefixLen(prefix) == CASE prefix = "frame" -> 5 [] prefix = "f" -> 1

\* number of decimal digits of n >= 0
RECURSIVE Digits(_)
Digits(n) == IF n < 10 THEN 1 ELSE 1 + Digits(n \div 10)

\* the name is prefix followed by the decimal digits of num; x[5:] drops
\* the first NameCut characters
NameCut == 5

\* whether int(x[5:]) raises ValueError: x[5:] is empty or holds a letter
IntRaises(x) ==
    \/ PrefixLen(x.prefix) > NameCut
    \/ PrefixLen(x.prefix) + Digits(x.num) <= NameCut

\* ------------------------------------------------------------- the inputs

\* entry i of the lists of a data file
Obj(i) == [kind |-> "3D", frame |-> i]
Img(i) == [kind |-> "2D", frame |-> i]
Name(prefix, i) == [prefix |-> prefix, num |-> i]

\* the content of a data file: the parallel lists of its frames
Content(prefix, poses) ==
    [p3D |-> [k \in 1..Len(poses) |-> Obj(k - 1)],
     p2D |-> [k \in 1..Len(poses) |-> Img(k - 1)],
     name_points |-> [k \in 1..Len(poses) |-> Name(prefix, k - 1)],
     rt_vectors |-> poses]

NoContent == [p3D |-> <<>>, p2D |-> <<>>, name_points |-> <<>>, rt_vectors |-> <<>>]

Poses == { <<0, <<0, 0, 0>>>>, <<0, <<1, 0, 0>>>>, <<0, <<20, 0, 0>>>>,
           <<1, <<20, 0, 0>>>> }
StillPose == <<0, <<0, 0, 0>>>>
Prefixes == {"frame", "f"}

\* data files whose camera moves
MovingFiles ==
    { [status |-> "ok", content |-> Content(pre, poses)] :
        pre \in Prefixes, poses \in UNION { [1..n -> Poses] : n \in 0..MaxLen } }

\* data files whose camera stands still, and the file that is missing or
\* is no pickle
StillFiles ==
    { [status |-> "ok", content |-> Content(pre, [k \in 1..n |-> StillPose])] :
        pre \in Prefixes, n \in 0..MaxStrideLen }
    \cup { [status |-> st, content |-> NoContent] : st \in {"missing", "malformed"} }

\* command lines that vary the distance filter
DistArgs ==
    [extended : BOOLEAN, save : BOOLEAN, filterdist : BOOLEAN,
     filtertime : BOOLEAN, mindist : {-10, 0, 10, 20}, reduction : {2},
     residue : {1}]

\* command lines that vary the stride filter
StrideArgs ==
    [extended : BOOLEAN, save : BOOLEAN, filterdist : BOOLEAN,
     filtertime : BOOLEAN, mindist : {0, 10}, reduction : -1..3,
     residue : -2..(MaxStrideLen + 1)]

\* ------------------------------------------------------- the state machine

Init ==
    /\ pc = "load"
    /\ \/ args \in DistArgs /\ file \in MovingFiles
       \/ args \in StrideArgs /\ file \in StillFiles
    /\ pFile = NoContent
    /\ objpoints = <<>>
    /\ imgpoints = <<>>
    /\ ret_names = <<>>
    /\ vecs = <<>>
    /\ calibrated = [status |-> "none", objectPoints |-> <<>>, imagePoints |-> <<>>]
    /\ log = <<>>
    /\ opened = {}
    /\ released = {}

\* lines 56-70: open the pickle, load it, unpack the lists. The file object
\* open() returns is a temporary of line 58: the script does not close it, the
\* interpreter does when the statement ends (normally or by an exception) and
\* the last reference to it goes.
Load ==
    /\ pc = "load"
    /\ log' = Append(log, "Loading")
    /\ opened' = IF file.status = "missing" THEN opened ELSE opened \cup {"pkl"}
    /\ released' = IF file.status = "missing" THEN released ELSE released \cup {"pkl"}
    /\ IF file.status = "ok"
       THEN /\ pFile' = file.content
            /\ objpoints' = file.content.p3D
            /\ imgpoints' = file.content.p2D
            /\ ret_names' = file.content.name_points
            /\ vecs' = file.content.rt_vectors
            /\ pc' = "filter"
       ELSE /\ pc' = "failed"
            /\ UNCHANGED <<pFile, objpoints, imgpoints, ret_names, vecs>>
    /\ UNCHANGED <<args, file, calibrated>>

\* mutant of Filter: the lists are filtered in place, so the loaded record
\* and the poses shrink with them
FilterInPlace ==
    /\ pc = "filter"
    /\ IF FilterRaises(args)
       THEN /\ pc' = "failed"
            /\ log' = Append(log, "Filter by time enabled")
            /\ UNCHANGED <<objpoints, imgpoints, ret_names, pFile, vecs>>
       ELSE LET out == FilterLists(args, objpoints, imgpoints, ret_names, vecs)
                pos == FilterLists(args, vecs, vecs, vecs, vecs)[1] IN
            /\ objpoints' = out[1]
            /\ imgpoints' = out[2]
            /\ ret_names' = out[3]
            /\ vecs' = pos
            /\ pFile' = [p3D |-> out[1], p2D |-> out[2], name_points |-> out[3],
                         rt_vectors |-> pos]
            /\ log' = log
                 \o (IF args.filterdist THEN <<"Filter by distance enabled">>
                     ELSE IF args.filtertime THEN <<"Filter by time enabled">>
                     ELSE <<>>)
                 \o <<"Length of lists">>
            /\ pc' = "calibrate"
    /\ UNCHANGED <<args, file, calibrated, opened, released>>

\* lines 72-83: rebind the three lists to the filtered ones, print the length
Filter ==
    /\ pc = "filter"
    /\ IF FilterRaises(args)
       THEN /\ pc' = "failed"
            /\ log' = Append(log, "Filter by time enabled")
            /\ UNCHANGED <<objpoints, imgpoints, ret_names>>
       ELSE LET out == FilterLists(args, objpoints, imgpoints, ret_names, vecs) IN
            /\ objpoints' = out[1]
            /\ imgpoints' = out[2]
            /\ ret_names' = out[3]
            /\ log' = log
                 \o (IF args.filterdist THEN <<"Filter by distance enabled">>
                     ELSE IF args.filtertime THEN <<"Filter by time enabled">>
                     ELSE <<>>)
                 \o <<"Length of lists">>
            /\ pc' = "calibrate"
    /\ UNCHANGED <<args, file, pFile, vecs, calibrated, opened, released>>

\* mutant of Calibrate: the solver's error is caught and the run goes on
CalibrateCaught ==
    /\ pc = "calibrate"
    /\ log' = Append(log, "Calculating camera parameters")
    /\ \E ok \in BOOLEAN :
        /\ ok => Len(objpoints) > 0
        /\ calibrated' = [status |-> IF ok THEN "ok" ELSE "error",
                          objectPoints |-> objpoints, imagePoints |-> imgpoints]
        /\ pc' = "report"
    /\ UNCHANGED <<args, file, pFile, objpoints, imgpoints, ret_names, vecs,
                   opened, released>>

\* lines 85-92: the solver is given the lists; it raises on no frames, and
\* may raise on any input
Calibrate ==
    /\ pc = "calibrate"
    /\ log' = Append(log, "Calculating camera parameters")
    /\ \E ok \in BOOLEAN :
        /\ ok => Len(objpoints) > 0
        /\ calibrated' = [status |-> IF ok THEN "ok" ELSE "error",
                          objectPoints |-> objpoints, imagePoints |-> imgpoints]
        /\ pc' = IF ok THEN "report" ELSE "failed"
    /\ UNCHANGED <<args, file, pFile, objpoints, imgpoints, ret_names, vecs,
                   opened, released>>

\* lines 94-97: print the results
Report ==
    /\ pc = "report"
    /\ log' = log \o <<"Camera matrix", "Distortion coefficients">>
                  \o (IF args.extended THEN <<"Error per frame">> ELSE <<>>)
    /\ pc' = "save"
    /\ UNCHANGED <<args, file, pFile, objpoints, imgpoints, ret_names, vecs,
                   calibrated, opened, released>>

\* lines 99-113: ask for the summary, open the results file, write, release.
\* fs is a module-level name: when line 107 raises, fs.release() is skipped
\* and the storage stays referenced, and open, while the script terminates.
Save ==
    /\ pc = "save"
    /\ IF ~args.save
       THEN /\ log' = Append(log, "We finished!")
            /\ pc' = "done"
            /\ UNCHANGED <<opened, released>>
       ELSE /\ opened' = opened \cup {"yml"}
            /\ IF args.extended /\ \E k \in 1..Len(ret_names) : IntRaises(ret_names[k])
               THEN /\ log' = log \o <<"Insert comments", "open yml", "write yml">>
                    /\ pc' = "failed"
                    /\ UNCHANGED released
               ELSE /\ log' = log \o <<"Insert comments", "open yml", "write yml",
                                       "release yml", "We finished!">>
                    /\ released' = released \cup {"yml"}
                    /\ pc' = "done"
    /\ UNCHANGED <<args, file, pFile, objpoints, imgpoints, ret_names, vecs,
                   calibrated>>

Next == Load \/ Filter \/ Calibrate \/ Report \/ Save

Spec == Init /\ [][Next]_vars

\* ------------------------------------------------------------- properties

InLog(e) == \E k \in 1..Len(log) : log[k] = e

\* the filter section has run to its end (line 83 printed the length)
Filtered == InLog("Length of lists")
\* the distance branch was taken and the script is past the filter section
DistRan == args.filterdist /\ file.status = "ok" /\ pc \notin {"load", "filter"}
\* the stride branch was taken and its slices did not raise
StrideRan == ~args.filterdist /\ args.filtertime /\ Filtered

\* the number of loaded frames, and the original index of each output entry
NFrames == Len(pFile.name_points)
ObjIdx == [k \in 1..Len(objpoints) |-> objpoints[k].frame]
ImgIdx == [k \in 1..Len(imgpoints) |-> imgpoints[k].frame]
NameIdx == [k \in 1..Len(ret_names) |-> ret_names[k].num]

Increasing(s) == \A k \in 1..(Len(s) - 1) : s[k] < s[k + 1]
Elems(s) == { s[k] : k \in 1..Len(s) }

\* squared distance between the positions of the loaded frames i and j
Dist2(i, j) == NormSq(tmat(vecs[i + 1]), tmat(vecs[j + 1]))

\* the retained index that is the comparison reference of frame k: the last
\* retained index before k (-1 when there is none)
RefOf(k) ==
    LET before == { i \in Elems(NameIdx) : i < k } IN
    IF before = {} THEN -1 ELSE CHOOSE i \in before : \A j \in before : j <= i

\* C1: with min_dist >= 0 the distance filter retains exactly the greedy set:
\* consecutive retained frames are at least min_dist apart, every discarded
\* frame is closer than min_dist to the last frame retained before it, and the
\* three outputs list the retained indices in increasing order, no duplicates.
C1_GreedySet ==
    (DistRan /\ args.mindist >= 0) =>
        /\ Filtered
        /\ Increasing(NameIdx)
        /\ Elems(NameIdx) \subseteq 0..(NFrames - 1)
        /\ ObjIdx = NameIdx
        /\ ImgIdx = NameIdx
        /\ \A k \in 1..(Len(NameIdx) - 1) :
               Dist2(NameIdx[k], NameIdx[k + 1]) >= args.mindist * args.mindist
        /\ \A d \in (0..(NFrames - 1)) \ Elems(NameIdx) :
               /\ RefOf(d) >= 0
               /\ Dist2(RefOf(d), d) < args.mindist * args.mindist

\* positions 0.0, 0.05, 1.0 with minDist 0.5 retain {0, 2}
C1_Witness ==
    /\ DistRan
    /\ args.mindist = 10
    /\ vecs = << <<0, <<0, 0, 0>>>>, <<0, <<1, 0, 0>>>>, <<0, <<20, 0, 0>>>> >>
    /\ NameIdx = <<0, 2>>

\* C2: with reduction N >= 1 and residue r >= 0 the stride filter leaves, in
\* each of the three lists, exactly the frames r, r+N, r+2N, ... below the
\* length, in the original order.
C2_StrideSet ==
    (StrideRan /\ args.reduction >= 1 /\ args.residue >= 0) =>
        /\ Increasing(NameIdx)
        /\ Elems(NameIdx) =
             { i \in 0..(NFrames - 1) :
                 i >= args.residue /\ (i - args.residue) % args.reduction = 0 }
        /\ ObjIdx = NameIdx
        /\ ImgIdx = NameIdx
        /\ (args.residue >= NFrames => ret_names = <<>>)
        /\ (args.reduction = 1 =>
              Elems(NameIdx) = { i \in 0..(NFrames - 1) : i >= args.residue })
        /\ (args.reduction = 1 /\ args.residue = 0 =>
              /\ objpoints = pFile.p3D
              /\ imgpoints = pFile.p2D
              /\ ret_names = pFile.name_points)

\* names f0..f4 with N = 2, r = 1 give [f1, f3]
C2_Witness ==
    /\ StrideRan
    /\ args.reduction = 2
    /\ args.residue = 1
    /\ pFile.name_points = [k \in 1..5 |-> Name("f", k - 1)]
    /\ ret_names = <<Name("f", 1), Name("f", 3)>>

\* C3: after either filter the three lists have one length and the entries at
\* each position come from the same original frame.
C3_Aligned ==
    (Filtered /\ (args.filterdist \/ args.filtertime)) =>
        /\ Len(objpoints) = Len(imgpoints)
        /\ Len(imgpoints) = Len(ret_names)
        /\ ObjIdx = ImgIdx
        /\ ImgIdx = NameIdx

\* the stride filter has dropped some frames and kept others
C3_Witness ==
    /\ StrideRan
    /\ Len(ret_names) > 1
    /\ Len(ret_names) < NFrames

\* C4: the distance filter never raises; on a non-empty input its output
\* starts with frame 0 whatever min_dist is, on one frame it is that frame,
\* on no frame it is three empty lists.
C4_FirstKept ==
    DistRan =>
        /\ Filtered
        /\ (NFrames > 0 =>
              /\ Len(objpoints) > 0 /\ objpoints[1] = pFile.p3D[1]
              /\ Len(imgpoints) > 0 /\ imgpoints[1] = pFile.p2D[1]
              /\ Len(ret_names) > 0 /\ ret_names[1] = pFile.name_points[1])
        /\ (NFrames = 1 =>
              /\ objpoints = pFile.p3D
              /\ imgpoints = pFile.p2D
              /\ ret_names = pFile.name_points)
        /\ (NFrames = 0 =>
              objpoints = <<>> /\ imgpoints = <<>> /\ ret_names = <<>>)

\* frame 0 lies at the origin and min_dist is positive: it is kept, the
\* frame after it is dropped
C4_Witness ==
    /\ DistRan
    /\ args.mindist > 0
    /\ NFrames > 1
    /\ tmat(vecs[1]) = <<0, 0, 0>>
    /\ NameIdx[1] = 0
    /\ 1 \notin Elems(NameIdx)

\* C5: with min_dist = 0 the distance filter returns the three lists whole.
C5_ZeroIsIdentity ==
    (DistRan /\ args.mindist = 0) =>
        /\ objpoints = pFile.p3D
        /\ imgpoints = pFile.p2D
        /\ ret_names = pFile.name_points

\* two successive frames at the same position, min_dist = 0
C5_Witness ==
    /\ DistRan
    /\ args.mindist = 0
    /\ NFrames > 1
    /\ Dist2(0, 1) = 0
    /\ Len(ret_names) = NFrames

\* the three lists as loaded, and as each filter alone leaves them
LoadedSet == <<pFile.p3D, pFile.p2D, pFile.name_points>>
DistSet ==
    split_by_distance(pFile.p3D, pFile.p2D, pFile.name_points,
                      pFile.rt_vectors, args.mindist)
StrideSet ==
    <<Slice(pFile.p3D, args.residue, args.reduction),
      Slice(pFile.p2D, args.residue, args.reduction),
      Slice(pFile.name_points, args.residue, args.reduction)>>
\* what the solver was given, with the names reported beside it
CalibratedSet == <<calibrated.objectPoints, calibrated.imagePoints, ret_names>>

\* C6: the set handed to the solver is the distance-filtered set, the
\* stride-filtered set or the loaded set, never the two filters composed; with
\* neither flag it is the loaded set whatever mindist, reduction, residue are.
C6_OnePolicy ==
    calibrated.status # "none" =>
        /\ \/ CalibratedSet = LoadedSet
           \/ CalibratedSet = DistSet
           \/ args.reduction # 0 /\ CalibratedSet = StrideSet
        /\ (~args.filterdist /\ ~args.filtertime => CalibratedSet = LoadedSet)
        /\ (args.filterdist => CalibratedSet = DistSet)

\* both flags set, and the three candidate sets all differ
C6_Witness ==
    /\ calibrated.status = "ok"
    /\ args.filterdist /\ args.filtertime
    /\ DistSet # LoadedSet
    /\ StrideSet # LoadedSet
    /\ StrideSet # DistSet

\* C7: with reduction N >= 1 and any residue r, negative included, every
\* frame the stride filter retains has an original index r + k*N, k >= 0,
\* inside [0, length).
C7_NoWraparound ==
    (StrideRan /\ args.reduction >= 1) =>
        \A k \in 1..Len(NameIdx) :
            /\ NameIdx[k] \in 0..(NFrames - 1)
            /\ NameIdx[k] >= args.residue
            /\ (NameIdx[k] - args.residue) % args.reduction = 0

\* C8: past the stage that opened it, and at a failure, every file the
\* script opened has been released.
C8_HandlesReleased == pc # "load" => opened \subseteq released

\* the stage of each line the script prints or asks
StageOf(e) ==
    CASE e = "Loading" -> 1
      [] e \in {"Filter by distance enabled", "Filter by time enabled",
                "Length of lists"} -> 2
      [] e = "Calculating camera parameters" -> 3
      [] e \in {"Camera matrix", "Distortion coefficients", "Error per frame"} -> 4
      [] e \in {"Insert comments", "open yml", "write yml", "release yml"} -> 5
      [] e = "We finished!" -> 6

Before(e, f) ==
    \A k \in 1..Len(log) : log[k] = f => \E j \in 1..(k - 1) : log[j] = e

\* C9: the stages run in the order load, filter, calibrate, report, save,
\* exit; after a failed load or a failed calibration nothing more runs, so
\* nothing is asked and no results file is opened; the summary is asked for
\* only with the save option, after a successful calibration and the printed
\* results.
C9_Order ==
    /\ \A k \in 1..(Len(log) - 1) : StageOf(log[k]) <= StageOf(log[k + 1])
    /\ (pc # "load" => Len(log) > 0 /\ log[1] = "Loading")
    /\ Before("Length of lists", "Calculating camera parameters")
    /\ Before("Calculating camera parameters", "Camera matrix")
    /\ Before("Camera matrix", "We finished!")
    /\ (pc # "load" /\ file.status # "ok" =>
          pc = "failed" /\ log = <<"Loading">> /\ "yml" \notin opened)
    /\ (calibrated.status = "error" =>
          /\ pc = "failed"
          /\ log[Len(log)] = "Calculating camera parameters"
          /\ "yml" \notin opened)
    /\ (InLog("Insert comments") \/ "yml" \in opened =>
          /\ args.save
          /\ calibrated.status = "ok"
          /\ Before("Distortion coefficients", "Insert comments")
          /\ Before("Insert comments", "open yml"))
    /\ (pc = "done" => log[Len(log)] = "We finished!")
    /\ (pc = "failed" => ~InLog("We finished!"))

\* a calibration has failed with the save option set
C9_Witness == calibrated.status = "error" /\ args.save /\ pc = "failed"

\* C10: filtering only sub-selects: the loaded record and the poses stay as
\* loaded, each output entry is an unchanged entry of the list it was taken
\* from, and the poses are not filtered.
C10_NoMutation ==
    (pc # "load" /\ file.status = "ok") =>
        /\ pFile = file.content
        /\ vecs = file.content.rt_vectors
        /\ Elems(objpoints) \subseteq Elems(file.content.p3D)
        /\ Elems(imgpoints) \subseteq Elems(file.content.p2D)
        /\ Elems(ret_names) \subseteq Elems(file.content.name_points)

\* a filter has dropped frames and the poses are still all there
C10_Witness ==
    /\ Filtered
    /\ Len(ret_names) < Len(file.content.name_points)
    /\ Len(vecs) = Len(file.content.name_points)
    /\ Len(ret_names) > 0

====
